---------------------------- MODULE Spec2Model ----------------------------
(***************************************************************************)
(* State-machine model of the DSOG Delivery service worker (src/sw.js).    *)
(*                                                                         *)
(* The worker is a set of event listeners over three pieces of durable     *)
(* state: the Cache Storage namespaces CACHE_NAME and API_CACHE_NAME, and  *)
(* the IndexedDB object store 'pending-requests'.  Each async function of  *)
(* the source is modelled as a task that moves from one await to the next; *)
(* one action is one resumption of the task (the code between two awaits). *)
(***************************************************************************)
EXTENDS Integers, Sequences, FiniteSets, TLC

VARIABLES
    event,        \* the FetchEvent being dispatched: request, respondWith calls
    cacheNames,   \* caches.keys(): the Cache Storage namespaces that exist
    staticCache,  \* entries of the namespace CACHE_NAME: url -> Response
    apiCache,     \* entries of the namespace API_CACHE_NAME: url -> record
    now,          \* Date.now(), in milliseconds
    tasks,        \* the strategy calls: position, locals, result of each
    slots,        \* the strategy calls that may run
    storeFaults,  \* whether Cache Storage operations may reject
    queue,        \* the records of the object store 'pending-requests'
    nextId,       \* the key generator of the store (autoIncrement)
    drains,       \* the calls of syncDeliveryRequests: position and locals
    drainers,     \* the calls of syncDeliveryRequests that may run
    worker        \* the install transition and the state of the worker

vars ==
    <<event, cacheNames, staticCache, apiCache, now, tasks, slots, storeFaults,
      queue, nextId, drains, drainers, worker>>

queueVars == <<queue, nextId, drains, drainers>>

cacheVars == <<cacheNames, staticCache, apiCache>>

fetchConfig == <<slots, storeFaults>>

(***************************************************************************)
(* Constants of the source.                                                *)
(***************************************************************************)
CACHE_NAME == "dsog-delivery-v2.1.0"

OFFLINE_URL == "/delivery/offline.html"

API_CACHE_NAME == "dsog-api-cache-v1.0"

MAX_CACHE_AGE == 60 * 60 * 1000

\* The value of a missing header, of cache.match on a miss, of an unset local.
None == "none"

(***************************************************************************)
(* The fetch listener: classification of a request.                        *)
(*                                                                         *)
(* A URL is kept as the parts url.href is made of.  `dir' is the leading   *)
(* part of the path and `query' what follows the '?'; href.includes(p)     *)
(* holds when host and leading path spell p, or when the query spells it.  *)
(***************************************************************************)
MAPS == [host |-> "maps.googleapis.com", dir |-> "/maps/api"]

GSI == [host |-> "accounts.google.com", dir |-> "/gsi/"]

SCRIPT == [host |-> "script.google.com", dir |-> "/macros/s/"]

FONT_AWESOME == [host |-> "cdnjs.cloudflare.com", dir |-> "/ajax/libs/font-awesome"]

Patterns == {MAPS, GSI, SCRIPT, FONT_AWESOME}

\* A query string that spells none of the patterns.
NoQuery == [host |-> "", dir |-> ""]

\* self.location.origin
SelfOrigin == [protocol |-> "https:", host |-> "dsog.example"]

Protocols == {"https:", "chrome-extension:"}

Hosts == {p.host : p \in Patterns} \cup {SelfOrigin.host, "i.postimg.cc"}

Dirs == {p.dir : p \in Patterns} \cup {"/delivery/"}

Methods == {"GET", "POST"}

AcceptHeaders == {None, "text/html,application/xhtml+xml", "application/json", "*/*"}

DispatchUrls ==
    [protocol : Protocols, host : Hosts, dir : Dirs, query : Patterns \cup {NoQuery}]

DispatchRequests == [method : Methods, url : DispatchUrls, accept : AcceptHeaders]

hrefIncludes(url, p) ==
    \/ url.host = p.host /\ url.dir = p.dir
    \/ url.query = p

origin(url) == [protocol |-> url.protocol, host |-> url.host]

\* request.headers.get('Accept')?.includes('text/html')
acceptsHtml(accept) == accept # None /\ accept = "text/html,application/xhtml+xml"

\* The listener with the Maps and Sign-in tests in the other order.
fetchListenerGsiFirst(request) ==
    LET url == request.url IN
    IF request.method # "GET" \/ url.protocol = "chrome-extension:" THEN <<>>
    ELSE IF hrefIncludes(url, GSI) THEN <<"networkOnlyStrategy">>
    ELSE IF hrefIncludes(url, MAPS) THEN <<"networkFirstStrategy">>
    ELSE IF hrefIncludes(url, SCRIPT) THEN <<"networkFirstWithApiCache">>
    ELSE IF hrefIncludes(url, FONT_AWESOME) THEN <<"cacheFirstStrategy">>
    ELSE IF origin(url) = SelfOrigin
         THEN IF acceptsHtml(request.accept)
              THEN <<"networkFirstWithOfflineFallback">>
              ELSE <<"cacheFirstStrategy">>
    ELSE <<"networkFirstStrategy">>

\* The calls of event.respondWith the listener makes for a request, in order:
\* each test of the listener ends in a return.
fetchListener(request) ==
    LET url == request.url IN
    IF request.method # "GET" \/ url.protocol = "chrome-extension:" THEN <<>>
    ELSE IF hrefIncludes(url, MAPS) THEN <<"networkFirstStrategy">>
    ELSE IF hrefIncludes(url, GSI) THEN <<"networkOnlyStrategy">>
    ELSE IF hrefIncludes(url, SCRIPT) THEN <<"networkFirstWithApiCache">>
    ELSE IF hrefIncludes(url, FONT_AWESOME) THEN <<"cacheFirstStrategy">>
    ELSE IF origin(url) = SelfOrigin
         THEN IF acceptsHtml(request.accept)
              THEN <<"networkFirstWithOfflineFallback">>
              ELSE <<"cacheFirstStrategy">>
    ELSE <<"networkFirstStrategy">>

\* No fetch event is being dispatched.
NoEvent == << >>


(***************************************************************************)
(* Requests, responses and the transport, as the strategies see them.      *)
(*                                                                         *)
(* A strategy reads request.url and the Accept header.  The url is its     *)
(* path and the list of its query parameters; a Cache matches on the url.  *)
(***************************************************************************)
HTML == "text/html,application/xhtml+xml"

Url(path, search) == [path |-> path, search |-> search]

Param(name, value) == [name |-> name, value |-> value]

APP_JS == Url("/delivery/app.js", << >>)

\* cache.match(OFFLINE_URL): the string names the page of this origin.
OfflineKey == Url(OFFLINE_URL, << >>)

EXEC == "https://script.google.com/macros/s/XYZ/exec"

StaticRequests == [url : {APP_JS}, accept : {HTML, "*/*"}]

ApiUrls ==
    { Url(EXEC, << >>),
      Url(EXEC, <<Param("cacheBuster", "123")>>),
      Url(EXEC, <<Param("action", "list"), Param("timestamp", "1")>>) }

ApiRequests == [url : ApiUrls, accept : {"application/json"}]

Response(status, body) == [status |-> status, body |-> body]

NoResponse == Response(0, "")

\* response.ok
ok(response) == response.status \in 200..299

\* What await fetch(request) yields: a Response, or a thrown failure.
Resolved(response) == [threw |-> FALSE, response |-> response]

Threw == [threw |-> TRUE, response |-> NoResponse]

StaticResponses ==
    {Response(200, "v1"), Response(200, "v2"), Response(404, "Not Found")}

\* URLs to cache on install
PRECACHE_URLS ==
    { Url("/delivery/", << >>),
      Url("/delivery/index.html", << >>),
      Url(OFFLINE_URL, << >>),
      Url("https://i.postimg.cc/kMZ1jTww/Untitled-design-4-removebg-preview.png", << >>),
      Url("https://cdnjs.cloudflare.com/ajax/libs/font-awesome/6.4.0/css/all.min.css", << >>),
      Url("https://fonts.googleapis.com/css2",
          <<Param("family", "Segoe+UI:wght@300;400;500;600;700"),
            Param("display", "swap")>>) }

\* The response cache.addAll stores for a precache url.
Precache(url) == Response(200, url.path)

\* The entries of the static namespace after cache.addAll(PRECACHE_URLS).
Precached == [u \in PRECACHE_URLS |-> Precache(u)]

(***************************************************************************)
(* JSON.  A decoded value is null or an object; of an object the model     *)
(* keeps the `success' member and the rest of its text.                    *)
(***************************************************************************)
JsonNull == [kind |-> "null", success |-> None, rest |-> ""]

JsonObject(success, rest) == [kind |-> "object", success |-> success, rest |-> rest]

ApiBodies ==
    { "<html>Bad Gateway</html>",
      "null",
      "{\"success\":false,\"error\":\"denied\"}",
      "{\"success\":true,\"data\":[1]}",
      "{\"data\":[2]}",
      "{ \"data\" : [2] }" }

\* Whether response.json() rejects with a SyntaxError.
jsonThrows(text) == text = "<html>Bad Gateway</html>"

\* The value response.json() resolves with.
json(text) ==
    CASE text = "null" -> JsonNull
      [] text = "{\"success\":false,\"error\":\"denied\"}" ->
             JsonObject("false", "\"error\":\"denied\"")
      [] text = "{\"success\":true,\"data\":[1]}" ->
             JsonObject("true", "\"data\":[1]")
      [] text \in {"{\"data\":[2]}", "{ \"data\" : [2] }"} ->
             JsonObject(None, "\"data\":[2]")

\* JSON.stringify(value)
stringify(value) ==
    CASE value = JsonNull -> "null"
      [] value = JsonObject("false", "\"error\":\"denied\"") ->
             "{\"success\":false,\"error\":\"denied\"}"
      [] value = JsonObject("true", "\"data\":[1]") ->
             "{\"success\":true,\"data\":[1]}"
      [] value = JsonObject(None, "\"data\":[2]") -> "{\"data\":[2]}"

ApiResponses == {Response(st, b) : st \in {200, 500}, b \in ApiBodies}

\* new Response('Network error', {status: 408, statusText: 'Network error'})
NetworkError408 == Response(408, "Network error")

\* The failure envelope of networkFirstWithApiCache.
FailureEnvelope ==
    Response(408, "{\"success\":false,\"error\":\"Network error\",\"message\":\"Unable to connect. Please check your internet connection.\",\"data\":[]}")

\* The page networkFirstWithOfflineFallback builds when none is stored.
InlineOfflinePage == Response(200, "<!DOCTYPE html>...You're Offline...")

(***************************************************************************)
(* A Cache: the entries put under each url.                                *)
(***************************************************************************)
EmptyCache == [k \in {} |-> NoResponse]

\* cache.match(key) finds an entry
has(cache, key) == key \in DOMAIN cache

\* cache.put(key, value)
put(cache, key, value) ==
    [k \in DOMAIN cache \cup {key} |-> IF k = key THEN value ELSE cache[k]]

\* cache.delete(key)
delete(cache, key) == [k \in DOMAIN cache \ {key} |-> cache[k]]

\* caches.open(name) creates the namespace when it does not exist.
open(names, name) == names \cup {name}

\* The outcomes of one Cache Storage operation: FALSE it resolves, TRUE it rejects.
Faults == IF storeFaults THEN {FALSE, TRUE} ELSE {FALSE}


(***************************************************************************)
(* generateCacheKey: the request with the volatile parameters removed.     *)
(***************************************************************************)
Volatile == {"timestamp", "_", "cacheBuster"}

\* The value a percent-encoded or form-encoded text stands for.
decode(value) == IF value \in {"a%20b", "a+b"} THEN "a b" ELSE value

\* The form encoding of a value: a space is written '+'.
encode(value) == IF value = "a b" THEN "a+b" ELSE value

\* new URLSearchParams(url.search): the parameters, names and values decoded
URLSearchParams(search) ==
    [i \in DOMAIN search |-> Param(search[i].name, decode(search[i].value))]

\* params.toString(): the parameters written again, form-encoded
toString(params) ==
    [i \in DOMAIN params |-> Param(params[i].name, encode(params[i].value))]

\* The first parameter of the name is deleted, later ones stay.
deleteFirst(params, name) ==
    IF \E i \in DOMAIN params : params[i].name = name
    THEN LET i == CHOOSE i \in DOMAIN params :
                    /\ params[i].name = name
                    /\ \A j \in 1..(i - 1) : params[j].name # name
         IN  SubSeq(params, 1, i - 1) \o SubSeq(params, i + 1, Len(params))
    ELSE params

\* The key made by deleting one parameter of each of the three names.
generateCacheKeyDeletesFirst(request) ==
    [request EXCEPT !.url.search =
       toString(deleteFirst(deleteFirst(deleteFirst(
         URLSearchParams(@), "timestamp"), "_"), "cacheBuster"))]

\* params.delete(name), for the three names; url.search = params.toString()
generateCacheKey(request) ==
    [request EXCEPT !.url.search =
       toString(SelectSeq(URLSearchParams(@), LAMBDA p : p.name \notin Volatile))]

(***************************************************************************)
(* Strategy calls.  A call is at one of its awaits (pc) or done; `error'   *)
(* is what the catch block caught, `fetches' counts the invocations of the *)
(* transport, `result' is what the returned promise settles with,          *)
(* `issued' the instant the call was made (kept for the calls that run     *)
(* side by side, 0 otherwise); the other fields are the locals of the      *)
(* source with the same names.                                             *)
(***************************************************************************)
AllSlots == {"t1", "t2"}

NoRequest == [url |-> Url("", << >>), accept |-> None]

NoRecord == [data |-> JsonNull, timestamp |-> 0, url |-> Url("", << >>)]

NoResult == [kind |-> "pending", from |-> None, response |-> NoResponse]

IdleTask ==
    [pc |-> "idle", strategy |-> None, request |-> NoRequest,
     networkResponse |-> NoResponse, cacheData |-> NoRecord, cacheAge |-> 0,
     error |-> None, fetches |-> 0, result |-> NoResult, issued |-> 0]

\* The promise of the call is fulfilled with a response.
Return(self, from, response) ==
    [self EXCEPT !.pc = "done",
                 !.result = [kind |-> "response", from |-> from, response |-> response]]

\* The promise of the call is rejected.
Throw(self, error) ==
    [self EXCEPT !.pc = "done", !.error = error,
                 !.result = [kind |-> "rejected", from |-> error, response |-> NoResponse]]

\* Control reaches the await named pc.
Goto(self, pc) == [self EXCEPT !.pc = pc]

\* Control enters the catch block with the error.
Catch(self, pc, error) == [self EXCEPT !.pc = pc, !.error = error]

FirstAwait(strategy) ==
    CASE strategy = "cacheFirstStrategy" -> "cf_open"
      [] strategy = "networkFirstStrategy" -> "nf_fetch"
      [] strategy = "networkFirstWithApiCache" -> "api_open"
      [] strategy = "networkFirstWithOfflineFallback" -> "of_fetch"
      [] strategy = "networkOnlyStrategy" -> "no_fetch"

StaticStrategies ==
    {"cacheFirstStrategy", "networkFirstStrategy",
     "networkFirstWithOfflineFallback", "networkOnlyStrategy"}

\* The requests the listener hands to a strategy.
Calls ==
    {c \in [strategy : StaticStrategies, request : StaticRequests] :
        c.strategy = "networkFirstWithOfflineFallback" => acceptsHtml(c.request.accept)}
    \cup [strategy : {"networkFirstWithApiCache"}, request : ApiRequests]

\* event.respondWith(strategy(request)): the call runs to its first await.
call(t, c, instant) ==
    /\ t \in slots
    /\ worker.state = "activated"
    /\ tasks[t].pc \in {"idle", "done"}
    /\ tasks' = [tasks EXCEPT ![t] =
                   [IdleTask EXCEPT !.pc = FirstAwait(c.strategy),
                                    !.strategy = c.strategy,
                                    !.request = c.request,
                                    !.issued = instant]]
    /\ UNCHANGED <<event, cacheVars, now, fetchConfig, queueVars, worker>>

respondWith(t) == \E c \in Calls : call(t, c, 0)

\* External resources - Network First:
\* event.respondWith(networkFirstStrategy(request))
respondWithNetworkFirst(t) ==
    \E c \in Calls : c.strategy = "networkFirstStrategy" /\ call(t, c, now)

At(t, pc) == t \in slots /\ tasks[t].pc = pc

\* await fetch(request) has settled: networkResponse is bound when it resolved.
Fetched(self, out) ==
    [self EXCEPT !.fetches = @ + 1, !.networkResponse = out.response]

StaticOutcomes == {Threw} \cup {Resolved(r) : r \in StaticResponses}

ApiOutcomes == {Threw} \cup {Resolved(r) : r \in ApiResponses}

(***************************************************************************)
(* cacheFirstStrategy                                                      *)
(***************************************************************************)
\* A response is put in the cache when it is ok; this one puts every response.
cacheFirstStoresAny(networkResponse) == TRUE

\* if (networkResponse.ok)
cacheFirstStores(networkResponse) == ok(networkResponse)

\* const cache = await caches.open(CACHE_NAME), outside the try
cacheFirstOpen(t) ==
    /\ At(t, "cf_open")
    /\ \E fault \in Faults :
         IF fault
         THEN /\ tasks' = [tasks EXCEPT ![t] = Throw(@, "store")]
              /\ UNCHANGED cacheNames
         ELSE /\ tasks' = [tasks EXCEPT ![t] = Goto(@, "cf_match")]
              /\ cacheNames' = open(cacheNames, CACHE_NAME)
    /\ UNCHANGED <<event, staticCache, apiCache, now, fetchConfig, queueVars, worker>>

\* The hit of cacheFirstStrategy that fetches all the same.
cacheFirstHitRefreshes(self, cache) == Goto(self, "cf_fetch")

\* if (cachedResponse) return cachedResponse
cacheFirstHit(self, cache) == Return(self, "cache", cache[self.request.url])

\* const cachedResponse = await cache.match(request)
cacheFirstMatch(t) ==
    /\ At(t, "cf_match")
    /\ \E fault \in Faults :
         tasks' = [tasks EXCEPT ![t] =
                     IF fault THEN Catch(@, "cf_catch", "store")
                     ELSE IF has(staticCache, @.request.url)
                          THEN cacheFirstHit(@, staticCache)
                          ELSE Goto(@, "cf_fetch")]
    /\ UNCHANGED <<event, cacheVars, now, fetchConfig, queueVars, worker>>

\* const networkResponse = await fetch(request)
cacheFirstFetch(t) ==
    /\ At(t, "cf_fetch")
    /\ \E out \in StaticOutcomes :
         tasks' = [tasks EXCEPT ![t] =
                     IF out.threw THEN Catch(Fetched(@, out), "cf_catch", "network")
                     ELSE IF cacheFirstStores(out.response)
                          THEN Goto(Fetched(@, out), "cf_put")
                          ELSE Return(Fetched(@, out), "network", out.response)]
    /\ UNCHANGED <<event, cacheVars, now, fetchConfig, queueVars, worker>>

\* The key of cache.put(request, ...)
cacheFirstPutKey(self) == self.request.url

\* await cache.put(request, networkResponse.clone()); return networkResponse
cacheFirstPut(t) ==
    /\ At(t, "cf_put")
    /\ \E fault \in Faults :
         IF fault
         THEN /\ tasks' = [tasks EXCEPT ![t] = Catch(@, "cf_catch", "store")]
              /\ UNCHANGED staticCache
         ELSE /\ staticCache' = put(staticCache, cacheFirstPutKey(tasks[t]),
                                    tasks[t].networkResponse)
              /\ tasks' = [tasks EXCEPT ![t] = Return(@, "network", @.networkResponse)]
    /\ UNCHANGED <<event, cacheNames, apiCache, now, fetchConfig, queueVars, worker>>

\* catch (error): the offline page for an HTML request, else the 408 response
cacheFirstCatch(t) ==
    /\ At(t, "cf_catch")
    /\ IF acceptsHtml(tasks[t].request.accept)
       THEN \E fault \in Faults :
              tasks' = [tasks EXCEPT ![t] =
                          IF fault THEN Throw(@, "store")
                          ELSE IF has(staticCache, OfflineKey)
                               THEN Return(@, "offline", staticCache[OfflineKey])
                               ELSE Return(@, "synthetic", NetworkError408)]
       ELSE tasks' = [tasks EXCEPT ![t] = Return(@, "synthetic", NetworkError408)]
    /\ UNCHANGED <<event, cacheVars, now, fetchConfig, queueVars, worker>>


(***************************************************************************)
(* networkFirstStrategy                                                    *)
(***************************************************************************)
\* const networkResponse = await fetch(request)
networkFirstFetch(t) ==
    /\ At(t, "nf_fetch")
    /\ \E out \in StaticOutcomes :
         tasks' = [tasks EXCEPT ![t] =
                     IF out.threw THEN Catch(Fetched(@, out), "nf_catch", "network")
                     ELSE Goto(Fetched(@, out), "nf_put")]
    /\ UNCHANGED <<event, cacheVars, now, fetchConfig, queueVars, worker>>

\* The call that leaves an entry alone when the request already has one.
networkFirstPutIfAbsent(t) ==
    /\ At(t, "nf_put")
    /\ staticCache' = IF has(staticCache, tasks[t].request.url) THEN staticCache
                      ELSE put(staticCache, tasks[t].request.url,
                               tasks[t].networkResponse)
    /\ tasks' = [tasks EXCEPT ![t] = Return(@, "network", @.networkResponse)]
    /\ UNCHANGED <<event, cacheNames, apiCache, now, fetchConfig, queueVars, worker>>

\* const cache = await caches.open(CACHE_NAME);
\* await cache.put(request, networkResponse.clone()); return networkResponse
networkFirstPut(t) ==
    /\ At(t, "nf_put")
    /\ \E fault \in Faults :
         IF fault
         THEN /\ tasks' = [tasks EXCEPT ![t] = Catch(@, "nf_catch", "store")]
              /\ UNCHANGED <<cacheNames, staticCache>>
         ELSE /\ cacheNames' = open(cacheNames, CACHE_NAME)
              /\ staticCache' = put(staticCache, tasks[t].request.url,
                                    tasks[t].networkResponse)
              /\ tasks' = [tasks EXCEPT ![t] = Return(@, "network", @.networkResponse)]
    /\ UNCHANGED <<event, apiCache, now, fetchConfig, queueVars, worker>>

\* The catch block that serves the offline page to an HTML request before
\* it looks for the entry of the request.
networkFirstOfflineFirst(self, cache) ==
    IF acceptsHtml(self.request.accept) /\ has(cache, OfflineKey)
    THEN Return(self, "offline", cache[OfflineKey])
    ELSE IF has(cache, self.request.url)
         THEN Return(self, "cache", cache[self.request.url])
         ELSE Throw(self, self.error)

\* if (cachedResponse) return cachedResponse;
\* if (request.headers.get('Accept')?.includes('text/html')) ...; throw error
networkFirstFallback(self, cache) ==
    IF has(cache, self.request.url)
    THEN Return(self, "cache", cache[self.request.url])
    ELSE IF acceptsHtml(self.request.accept)
         THEN Goto(self, "nf_offline")
         ELSE Throw(self, self.error)

\* catch (error): const cachedResponse = await cache.match(request)
networkFirstCatch(t) ==
    /\ At(t, "nf_catch")
    /\ \E fault \in Faults :
         IF fault
         THEN /\ tasks' = [tasks EXCEPT ![t] = Throw(@, "store")]
              /\ UNCHANGED cacheNames
         ELSE /\ cacheNames' = open(cacheNames, CACHE_NAME)
              /\ tasks' = [tasks EXCEPT ![t] = networkFirstFallback(@, staticCache)]
    /\ UNCHANGED <<event, staticCache, apiCache, now, fetchConfig, queueVars, worker>>

\* const offlineResponse = await cache.match(OFFLINE_URL); ... throw error
networkFirstOffline(t) ==
    /\ At(t, "nf_offline")
    /\ \E fault \in Faults :
         tasks' = [tasks EXCEPT ![t] =
                     IF fault THEN Throw(@, "store")
                     ELSE IF has(staticCache, OfflineKey)
                          THEN Return(@, "offline", staticCache[OfflineKey])
                          ELSE Throw(@, @.error)]
    /\ UNCHANGED <<event, cacheVars, now, fetchConfig, queueVars, worker>>

(***************************************************************************)
(* networkFirstWithOfflineFallback                                         *)
(***************************************************************************)
\* const networkResponse = await fetch(request)
offlineFallbackFetch(t) ==
    /\ At(t, "of_fetch")
    /\ \E out \in StaticOutcomes :
         tasks' = [tasks EXCEPT ![t] =
                     IF out.threw THEN Catch(Fetched(@, out), "of_catch", "network")
                     ELSE Goto(Fetched(@, out), "of_put")]
    /\ UNCHANGED <<event, cacheVars, now, fetchConfig, queueVars, worker>>

\* const cache = await caches.open(CACHE_NAME);
\* await cache.put(request, networkResponse.clone()); return networkResponse
offlineFallbackPut(t) ==
    /\ At(t, "of_put")
    /\ \E fault \in Faults :
         IF fault
         THEN /\ tasks' = [tasks EXCEPT ![t] = Catch(@, "of_catch", "store")]
              /\ UNCHANGED <<cacheNames, staticCache>>
         ELSE /\ cacheNames' = open(cacheNames, CACHE_NAME)
              /\ staticCache' = put(staticCache, tasks[t].request.url,
                                    tasks[t].networkResponse)
              /\ tasks' = [tasks EXCEPT ![t] = Return(@, "network", @.networkResponse)]
    /\ UNCHANGED <<event, apiCache, now, fetchConfig, queueVars, worker>>

\* The catch block that throws the error again when no offline page is
\* stored.
offlineFallbackRethrows(self, cache) ==
    IF has(cache, OfflineKey)
    THEN Return(self, "offline", cache[OfflineKey])
    ELSE Throw(self, self.error)

\* if (offlineResponse) return offlineResponse; return new Response(`...`)
offlineFallback(self, cache) ==
    IF has(cache, OfflineKey)
    THEN Return(self, "offline", cache[OfflineKey])
    ELSE Return(self, "synthetic", InlineOfflinePage)

\* catch (error): the stored offline page, else the inline page
offlineFallbackCatch(t) ==
    /\ At(t, "of_catch")
    /\ \E fault \in Faults :
         IF fault
         THEN /\ tasks' = [tasks EXCEPT ![t] = Throw(@, "store")]
              /\ UNCHANGED cacheNames
         ELSE /\ cacheNames' = open(cacheNames, CACHE_NAME)
              /\ tasks' = [tasks EXCEPT ![t] = offlineFallback(@, staticCache)]
    /\ UNCHANGED <<event, staticCache, apiCache, now, fetchConfig, queueVars, worker>>

(***************************************************************************)
(* networkOnlyStrategy                                                     *)
(***************************************************************************)
\* The catch of networkOnlyStrategy that throws the error again.
networkOnlyRethrows(self) == Throw(self, "network")

\* catch (error): return new Response('Network error', {status: 408, ...})
networkOnlyCatch(self) ==
    Return(Catch(self, "done", "network"), "synthetic", NetworkError408)

\* The Network-Only call that keeps a copy of the response it fetched.
networkOnlyCaches(t) ==
    /\ At(t, "no_fetch")
    /\ \E out \in StaticOutcomes :
         /\ tasks' = [tasks EXCEPT ![t] =
                        IF out.threw THEN networkOnlyCatch(Fetched(@, out))
                        ELSE Return(Fetched(@, out), "network", out.response)]
         /\ staticCache' = IF out.threw THEN staticCache
                           ELSE put(staticCache, tasks[t].request.url, out.response)
    /\ UNCHANGED <<event, cacheNames, apiCache, now, fetchConfig, queueVars, worker>>

\* return await fetch(request)
networkOnlyFetch(t) ==
    /\ At(t, "no_fetch")
    /\ \E out \in StaticOutcomes :
         tasks' = [tasks EXCEPT ![t] =
                     IF out.threw THEN networkOnlyCatch(Fetched(@, out))
                     ELSE Return(Fetched(@, out), "network", out.response)]
    /\ UNCHANGED <<event, cacheVars, now, fetchConfig, queueVars, worker>>


(***************************************************************************)
(* networkFirstWithApiCache                                                *)
(***************************************************************************)
\* const cache = await caches.open(API_CACHE_NAME), outside the try
apiCacheOpen(t) ==
    /\ At(t, "api_open")
    /\ \E fault \in Faults :
         IF fault
         THEN /\ tasks' = [tasks EXCEPT ![t] = Throw(@, "store")]
              /\ UNCHANGED cacheNames
         ELSE /\ tasks' = [tasks EXCEPT ![t] = Goto(@, "api_fetch")]
              /\ cacheNames' = open(cacheNames, API_CACHE_NAME)
    /\ UNCHANGED <<event, staticCache, apiCache, now, fetchConfig, queueVars, worker>>

\* The test of the status that lets every response through.
apiResponseOkAlways(networkResponse) == TRUE

\* if (networkResponse.ok)
apiResponseOk(networkResponse) == ok(networkResponse)

\* if (responseData.success !== false)
apiCacheable(responseData) == responseData.success # "false"

\* const cacheData = {data: responseData, timestamp: Date.now(), url: request.url}
cacheData(responseData, time, url) ==
    [data |-> responseData, timestamp |-> time, url |-> url]

\* const networkResponse = await fetch(request);
\* const responseData = await responseClone.json(); ...
\* throw new Error(`API request failed with status: ...`)
apiCacheFetch(t) ==
    /\ At(t, "api_fetch")
    /\ \E out \in ApiOutcomes :
         tasks' = [tasks EXCEPT ![t] =
            IF out.threw THEN Catch(Fetched(@, out), "api_catch", "network")
            ELSE IF ~apiResponseOk(out.response)
                 THEN Catch(Fetched(@, out), "api_catch", "status")
            ELSE IF jsonThrows(out.response.body)
                 THEN Catch(Fetched(@, out), "api_catch", "SyntaxError")
            \* reading .success of null
            ELSE IF json(out.response.body) = JsonNull
                 THEN Catch(Fetched(@, out), "api_catch", "TypeError")
            ELSE IF ~apiCacheable(json(out.response.body))
                 THEN Return(Fetched(@, out), "network", out.response)
            ELSE [Fetched(@, out) EXCEPT
                    !.pc = "api_put",
                    !.cacheData = cacheData(json(out.response.body), now,
                                            tasks[t].request.url)]]
    /\ UNCHANGED <<event, cacheVars, now, fetchConfig, queueVars, worker>>

\* The key that keeps every query parameter of the request.
apiKeyRaw(request) == request.url

\* const cacheKey = generateCacheKey(request): the url the cache matches on
apiKey(request) == generateCacheKey(request).url

\* await cache.put(cacheKey, new Response(JSON.stringify(cacheData), ...));
\* return networkResponse
apiCachePut(t) ==
    /\ At(t, "api_put")
    /\ \E fault \in Faults :
         IF fault
         THEN /\ tasks' = [tasks EXCEPT ![t] = Catch(@, "api_catch", "store")]
              /\ UNCHANGED apiCache
         ELSE /\ apiCache' = put(apiCache, apiKey(tasks[t].request), tasks[t].cacheData)
              /\ tasks' = [tasks EXCEPT ![t] = Return(@, "network", @.networkResponse)]
    /\ UNCHANGED <<event, cacheNames, staticCache, now, fetchConfig, queueVars, worker>>

\* The freshness test that still serves an entry of exactly the maximum age.
isFreshInclusive(cacheAge) == cacheAge <= MAX_CACHE_AGE

\* if (cacheAge < MAX_CACHE_AGE)
isFresh(cacheAge) == cacheAge < MAX_CACHE_AGE

\* catch (error): const cachedResponse = await cache.match(cacheKey);
\* const cacheData = await cachedResponse.json();
\* const cacheAge = Date.now() - cacheData.timestamp
apiCacheCatch(t) ==
    /\ At(t, "api_catch")
    /\ \E fault \in Faults :
         tasks' = [tasks EXCEPT ![t] =
            IF fault THEN Throw(@, "store")
            ELSE IF ~has(apiCache, apiKey(@.request))
                 THEN Return(@, "synthetic", FailureEnvelope)
            ELSE LET found == apiCache[apiKey(@.request)]
                     age == now - found.timestamp
                     self == [@ EXCEPT !.cacheData = found, !.cacheAge = age]
                 IN  IF isFresh(age)
                     THEN Return(self, "cache", Response(200, stringify(found.data)))
                     ELSE Goto(self, "api_delete")]
    /\ UNCHANGED <<event, cacheVars, now, fetchConfig, queueVars, worker>>

\* await cache.delete(cacheKey); then the failure envelope
apiCacheDelete(t) ==
    /\ At(t, "api_delete")
    /\ \E fault \in Faults :
         IF fault
         THEN /\ tasks' = [tasks EXCEPT ![t] = Throw(@, "store")]
              /\ UNCHANGED apiCache
         ELSE /\ apiCache' = delete(apiCache, apiKey(tasks[t].request))
              /\ tasks' = [tasks EXCEPT ![t] = Return(@, "synthetic", FailureEnvelope)]
    /\ UNCHANGED <<event, cacheNames, staticCache, now, fetchConfig, queueVars, worker>>

(***************************************************************************)
(* The clock.  Date.now() is read at instants just after 0 and just after  *)
(* one maximum age, MaxEps milliseconds apart at most.                     *)
(***************************************************************************)
MaxEps == 1

Instants == {e : e \in 0..MaxEps} \cup {MAX_CACHE_AGE + e : e \in 0..MaxEps}

Tick ==
    /\ \E later \in Instants : later > now /\ now' = later
    /\ UNCHANGED <<event, cacheVars, tasks, fetchConfig, queueVars, worker>>

(***************************************************************************)
(* The retry queue: the object store 'pending-requests' of the database    *)
(* 'dsog-delivery-offline', keyPath 'id', autoIncrement, with the index    *)
(* 'timestamp'.                                                            *)
(***************************************************************************)
MaxEntries == 3

MaxStamp == 1

AllDrains == {"d1", "d2"}

PendingRequest(id, timestamp) ==
    [id |-> id, method |-> "POST", url |-> "/delivery/api/requests",
     headers |-> "Content-Type: application/json", body |-> "{\"order\":1}",
     timestamp |-> timestamp]

\* The number of records the application adds in all: MaxEntries for one
\* drain, one record fewer for each further drain that runs.
Capacity == MaxEntries + 1 - Cardinality(drainers)

\* The application adds a record; the store assigns the next id.
enqueue ==
    /\ nextId <= Capacity
    /\ \E timestamp \in 0..MaxStamp :
         queue' = queue \cup {PendingRequest(nextId, timestamp)}
    /\ nextId' = nextId + 1
    /\ UNCHANGED <<event, cacheVars, now, tasks, fetchConfig, drains, drainers, worker>>

\* The record a listing by primary key gives first: the least id.
FirstInserted(records) ==
    CHOOSE r \in records : \A o \in records : r.id <= o.id

\* The record of the set that the index 'timestamp' lists first: the least
\* timestamp, and the least id among equal timestamps.
First(records) ==
    CHOOSE r \in records :
      \A o \in records :
        r.timestamp < o.timestamp \/ (r.timestamp = o.timestamp /\ r.id <= o.id)

RECURSIVE getAll(_)
\* index.getAll(): the records in the order of the index
getAll(records) ==
    IF records = {} THEN << >>
    ELSE <<First(records)>> \o getAll(records \ {First(records)})

IdleDrain == [pc |-> "idle", pendingRequests |-> << >>, i |-> 1, log |-> << >>]

Draining(d, pc) == d \in drainers /\ drains[d].pc = pc

\* The for loop moves to the next request, or db.close() ends the call.
next(self) ==
    [self EXCEPT !.i = @ + 1,
                 !.pc = IF self.i + 1 > Len(self.pendingRequests)
                        THEN "done" ELSE "fetch"]

\* const db = await openDeliveryDB();
\* const pendingRequests = await getAllPendingRequests(db)
syncOpen(d) ==
    /\ d \in drainers
    /\ drains[d].pc \in {"idle", "done"}
    /\ \E fault \in Faults :
         drains' = [drains EXCEPT ![d] =
            IF fault THEN [IdleDrain EXCEPT !.pc = "done"]
            ELSE [IdleDrain EXCEPT
                    !.pendingRequests = getAll(queue),
                    !.pc = IF queue = {} THEN "done" ELSE "fetch"]]
    /\ UNCHANGED <<event, cacheVars, now, tasks, fetchConfig, queue, nextId,
                   drainers, worker>>

\* The replay outcomes: a 2xx response, another response, a thrown failure.
Replies == {"2xx", "non-2xx", "throw"}

\* The test that deletes the request whatever the response.
deletesAlways(reply) == TRUE

\* if (response.ok)
deletes(reply) == reply = "2xx"

\* The catch of the loop body that ends the drain.
afterFailureAborts(self) == [self EXCEPT !.pc = "done"]

\* catch (error) { console.error(...) }: the loop goes on
afterFailure(self) == next(self)

\* const response = await fetch(request.url, {method, headers, body})
syncFetch(d) ==
    /\ Draining(d, "fetch")
    /\ \E reply \in Replies :
         LET self == drains[d]
             request == self.pendingRequests[self.i]
             sent == [self EXCEPT !.log = Append(@, [request |-> request,
                                                     reply |-> reply])]
         IN  drains' = [drains EXCEPT ![d] =
                          IF reply = "throw" THEN afterFailure(sent)
                          ELSE IF deletes(reply) THEN [sent EXCEPT !.pc = "delete"]
                          ELSE next(sent)]
    /\ UNCHANGED <<event, cacheVars, now, tasks, fetchConfig, queue, nextId,
                   drainers, worker>>

\* The delete that removes the record added first, whatever the id.
deleteFirstInserted(records, id) ==
    IF records = {} THEN records ELSE records \ {FirstInserted(records)}

\* store.delete(id): the record with the id goes, if there is one.
deletePendingRequest(records, id) == {r \in records : r.id # id}

\* await deletePendingRequest(db, request.id)
syncDelete(d) ==
    /\ Draining(d, "delete")
    /\ \E fault \in Faults :
         /\ queue' = IF fault THEN queue
                     ELSE deletePendingRequest(
                            queue, drains[d].pendingRequests[drains[d].i].id)
         /\ drains' = [drains EXCEPT ![d] = IF fault THEN afterFailure(@) ELSE next(@)]
    /\ UNCHANGED <<event, cacheVars, now, tasks, fetchConfig, nextId, drainers, worker>>

\* No record is queued and no drain runs.
NoQueue ==
    /\ queue = {}
    /\ nextId = 1
    /\ drains = [d \in AllDrains |-> IdleDrain]
    /\ drainers = {}

(***************************************************************************)
(* The install transition.  cache.addAll fetches every url and stores the  *)
(* responses only when every fetch gave an ok response; it rejects as soon *)
(* as one did not.                                                         *)
(***************************************************************************)
\* The worker serves fetch events; its install fetched the precache urls
\* with the given outcomes.
Activated(fetched) ==
    [state |-> "activated", pc |-> "done", waitUntil |-> "fulfilled",
     skipWaiting |-> \A u \in PRECACHE_URLS : fetched[u] = "ok", fetched |-> fetched]

AllFetched == [u \in PRECACHE_URLS |-> "ok"]

OfflineNotFetched == [AllFetched EXCEPT ![OfflineKey] = "failed"]

Installing ==
    [state |-> "installing", pc |-> "open", waitUntil |-> "pending",
     skipWaiting |-> FALSE, fetched |-> [u \in PRECACHE_URLS |-> "pending"]]

Installs(pc) == worker.state = "installing" /\ worker.pc = pc

\* caches.open(CACHE_NAME)
installOpen ==
    /\ Installs("open")
    /\ cacheNames' = open(cacheNames, CACHE_NAME)
    /\ worker' = [worker EXCEPT !.pc = "addAll"]
    /\ UNCHANGED <<event, staticCache, apiCache, now, tasks, fetchConfig, queueVars>>

\* cache.addAll(PRECACHE_URLS): the fetch of one url settles
addAllFetch(url) ==
    /\ Installs("addAll")
    /\ worker.fetched[url] = "pending"
    /\ \E outcome \in {"ok", "failed"} :
         worker' = [worker EXCEPT !.fetched[url] = outcome]
    /\ UNCHANGED <<event, cacheVars, now, tasks, fetchConfig, queueVars>>

\* .then(() => self.skipWaiting()) when addAll resolved;
\* .catch((error) => console.error(...)) when it rejected
addAllSettles ==
    /\ Installs("addAll")
    /\ \/ /\ \A u \in PRECACHE_URLS : worker.fetched[u] = "ok"
          /\ staticCache' = [k \in DOMAIN staticCache \cup PRECACHE_URLS |->
                               IF k \in PRECACHE_URLS THEN Precache(k)
                               ELSE staticCache[k]]
          /\ worker' = [worker EXCEPT !.pc = "settled", !.skipWaiting = TRUE]
       \/ /\ \E u \in PRECACHE_URLS : worker.fetched[u] = "failed"
          /\ staticCache' = staticCache
          /\ worker' = [worker EXCEPT !.pc = "caught"]
    /\ UNCHANGED <<event, cacheNames, apiCache, now, tasks, fetchConfig, queueVars>>

\* The promise handed to event.waitUntil settles: the chain ends in .then
\* or in .catch, whose handler returns, so the promise is fulfilled.
waitUntilSettles ==
    /\ worker.state = "installing"
    /\ worker.pc \in {"settled", "caught"}
    /\ worker' = [worker EXCEPT !.pc = "done", !.waitUntil = "fulfilled",
                                !.state = "installed"]
    /\ UNCHANGED <<event, cacheVars, now, tasks, fetchConfig, queueVars>>

(***************************************************************************)
(* Request handling after installation: the static namespace exists and    *)
(* holds the offline page when the precache succeeded, nothing when not.   *)
(***************************************************************************)
InitFetch(faults) ==
    /\ event = NoEvent
    /\ cacheNames = {CACHE_NAME}
    /\ \/ worker = Activated(AllFetched) /\ staticCache = Precached
       \/ worker = Activated(OfflineNotFetched) /\ staticCache = EmptyCache
    /\ apiCache = EmptyCache
    /\ now = 0
    /\ tasks = [t \in AllSlots |-> IdleTask]
    /\ slots = {"t1"}
    /\ storeFaults = faults
    /\ NoQueue

\* The cache store resolves every operation.
Init == InitFetch(FALSE)

\* The cache store may reject any operation.
InitStoreFaults == InitFetch(TRUE)

NextFetch ==
    \/ \E t \in AllSlots :
         \/ respondWith(t)
         \/ cacheFirstOpen(t)
         \/ cacheFirstMatch(t)
         \/ cacheFirstFetch(t)
         \/ cacheFirstPut(t)
         \/ cacheFirstCatch(t)
         \/ networkFirstFetch(t)
         \/ networkFirstPut(t)
         \/ networkFirstCatch(t)
         \/ networkFirstOffline(t)
         \/ offlineFallbackFetch(t)
         \/ offlineFallbackPut(t)
         \/ offlineFallbackCatch(t)
         \/ networkOnlyFetch(t)
         \/ apiCacheOpen(t)
         \/ apiCacheFetch(t)
         \/ apiCachePut(t)
         \/ apiCacheCatch(t)
         \/ apiCacheDelete(t)
    \/ Tick

Spec == Init /\ [][NextFetch]_vars

SpecStoreFaults == InitStoreFaults /\ [][NextFetch]_vars


(***************************************************************************)
(* Dispatch of one fetch event, for every request.                         *)
(***************************************************************************)
InitDispatch ==
    /\ event \in {<<[request |-> r, handled |-> FALSE, respondWith |-> << >>]>> :
                     r \in DispatchRequests}
    /\ cacheNames = {CACHE_NAME}
    /\ staticCache = Precached
    /\ apiCache = EmptyCache
    /\ now = 0
    /\ tasks = [t \in AllSlots |-> IdleTask]
    /\ slots = {}
    /\ storeFaults = FALSE
    /\ NoQueue
    /\ worker = Activated(AllFetched)

\* self.addEventListener('fetch', ...): the listener runs on the event.
FetchEvent ==
    /\ event # NoEvent
    /\ ~event[1].handled
    /\ event' = <<[event[1] EXCEPT !.handled = TRUE,
                                  !.respondWith = fetchListener(event[1].request)]>>
    /\ UNCHANGED <<cacheVars, now, tasks, fetchConfig, queueVars, worker>>

NextDispatch == FetchEvent

SpecDispatch == InitDispatch /\ [][NextDispatch]_vars

(***************************************************************************)
(* The sync event: drains of the queue, with the application enqueuing.    *)
(***************************************************************************)
InitQueue ==
    /\ event = NoEvent
    /\ cacheNames = {CACHE_NAME}
    /\ staticCache = Precached
    /\ apiCache = EmptyCache
    /\ now = 0
    /\ tasks = [t \in AllSlots |-> IdleTask]
    /\ slots = {}
    /\ storeFaults = FALSE
    /\ queue = {}
    /\ nextId = 1
    /\ drains = [d \in AllDrains |-> IdleDrain]
    /\ drainers = {"d1"}
    /\ worker = Activated(AllFetched)

NextQueue ==
    \/ enqueue
    \/ \E d \in AllDrains :
         \/ syncOpen(d)
         \/ syncFetch(d)
         \/ syncDelete(d)

SpecQueue == InitQueue /\ [][NextQueue]_vars

(***************************************************************************)
(* The install event of a new worker.                                      *)
(***************************************************************************)
InitInstall ==
    /\ event = NoEvent
    /\ cacheNames = {}
    /\ staticCache = EmptyCache
    /\ apiCache = EmptyCache
    /\ now = 0
    /\ tasks = [t \in AllSlots |-> IdleTask]
    /\ slots = {}
    /\ storeFaults = FALSE
    /\ NoQueue
    /\ worker = Installing

NextInstall ==
    \/ installOpen
    \/ \E url \in PRECACHE_URLS : addAllFetch(url)
    \/ addAllSettles
    \/ waitUntilSettles

SpecInstall == InitInstall /\ [][NextInstall]_vars

(***************************************************************************)
(* C1.  The listener chooses the strategy of the first matching row of the *)
(* table, one strategy at most, and none only for a request that is not    *)
(* GET or has the chrome-extension: scheme.                                *)
(***************************************************************************)
Row1(r) == r.method # "GET" \/ r.url.protocol = "chrome-extension:"

Row2(r) == hrefIncludes(r.url, MAPS)

Row3(r) == hrefIncludes(r.url, GSI)

Row4(r) == hrefIncludes(r.url, SCRIPT)

Row5(r) == hrefIncludes(r.url, FONT_AWESOME)

Row6(r) == origin(r.url) = SelfOrigin /\ acceptsHtml(r.accept)

Row7(r) == origin(r.url) = SelfOrigin

Routed(e, strategy) == e.respondWith = <<strategy>>

\* C1: every handled fetch event got the strategy of the first matching row
\* of the table (rows 1 to 8 in order), never two strategies, and no strategy
\* exactly when row 1 matches.
C1_DispatchFirstMatch ==
    \A i \in DOMAIN event :
      LET e == event[i]
          r == e.request
      IN  e.handled =>
            /\ Len(e.respondWith) <= 1
            /\ (e.respondWith = << >>) <=> Row1(r)
            /\ Row1(r) => e.respondWith = << >>
            /\ ~Row1(r) /\ Row2(r) => Routed(e, "networkFirstStrategy")
            /\ ~Row1(r) /\ ~Row2(r) /\ Row3(r) => Routed(e, "networkOnlyStrategy")
            /\ ~Row1(r) /\ ~Row2(r) /\ ~Row3(r) /\ Row4(r)
                 => Routed(e, "networkFirstWithApiCache")
            /\ ~Row1(r) /\ ~Row2(r) /\ ~Row3(r) /\ ~Row4(r) /\ Row5(r)
                 => Routed(e, "cacheFirstStrategy")
            /\ ~Row1(r) /\ ~Row2(r) /\ ~Row3(r) /\ ~Row4(r) /\ ~Row5(r) /\ Row6(r)
                 => Routed(e, "networkFirstWithOfflineFallback")
            /\ ~Row1(r) /\ ~Row2(r) /\ ~Row3(r) /\ ~Row4(r) /\ ~Row5(r) /\ ~Row6(r)
                 /\ Row7(r) => Routed(e, "cacheFirstStrategy")
            /\ ~Row1(r) /\ ~Row2(r) /\ ~Row3(r) /\ ~Row4(r) /\ ~Row5(r) /\ ~Row6(r)
                 /\ ~Row7(r) => Routed(e, "networkFirstStrategy")

\* A handled GET request that matches rows 2 and 3 at once (the Maps host,
\* with the Sign-in pattern in its query) and went to Network-First.
C1_Witness ==
    /\ event # NoEvent
    /\ event[1].handled
    /\ ~Row1(event[1].request)
    /\ Row2(event[1].request)
    /\ Row3(event[1].request)
    /\ Routed(event[1], "networkFirstStrategy")


(***************************************************************************)
(* Claims about the strategies.                                            *)
(***************************************************************************)
Done(t, strategy) == tasks[t].pc = "done" /\ tasks[t].strategy = strategy

\* await fetch(request) resolved with a response in the call.
Resolves(self) == self.networkResponse # NoResponse

\* C7: when cache.match finds an entry for the request, cacheFirstStrategy
\* returns that entry in the same step, has not invoked the transport and
\* invokes it no more (the call is done), and the static namespace is as
\* it was.
C7_HitShortCircuits ==
    [][\A t \in AllSlots :
         ( /\ At(t, "cf_match")
           /\ has(staticCache, tasks[t].request.url)
           /\ tasks'[t] # tasks[t] )
         => /\ tasks'[t].pc = "done"
            /\ tasks'[t].result.kind = "response"
            /\ tasks'[t].result.response = staticCache[tasks[t].request.url]
            /\ tasks'[t].fetches = 0
            /\ staticCache' = staticCache]_vars

\* A Cache-First call served from the cache without a fetch.
C7_Witness ==
    \E t \in AllSlots :
      /\ Done(t, "cacheFirstStrategy")
      /\ tasks[t].result.from = "cache"
      /\ tasks[t].result.response = staticCache[tasks[t].request.url]
      /\ tasks[t].fetches = 0

\* C8 as claimed: a Cache-First call whose fetch resolved, with any status,
\* leaves a copy of the response in the static namespace under the
\* request's key.
C8_AnyResponseStored ==
    \A t \in AllSlots :
      Done(t, "cacheFirstStrategy") /\ Resolves(tasks[t])
      => /\ has(staticCache, tasks[t].request.url)
         /\ staticCache[tasks[t].request.url] = tasks[t].networkResponse

\* C8 amended: a Cache-First call that missed and whose fetch resolved
\* returns the network response; when that response is 2xx a copy of it is
\* in the static namespace under the request's key once the call returns,
\* and when it is not 2xx the namespace has no entry for the request.
C8_OkResponseStored ==
    \A t \in AllSlots :
      Done(t, "cacheFirstStrategy") /\ Resolves(tasks[t])
      => /\ tasks[t].result.kind = "response"
         /\ tasks[t].result.response = tasks[t].networkResponse
         /\ tasks[t].fetches = 1
         /\ IF tasks[t].networkResponse.status \in 200..299
            THEN /\ has(staticCache, tasks[t].request.url)
                 /\ staticCache[tasks[t].request.url] = tasks[t].networkResponse
            ELSE ~has(staticCache, tasks[t].request.url)

\* A Cache-First call that fetched a 2xx response and stored it.
C8_Witness ==
    \E t \in AllSlots :
      /\ Done(t, "cacheFirstStrategy")
      /\ tasks[t].networkResponse = Response(200, "v2")
      /\ tasks[t].result.response = Response(200, "v2")
      /\ staticCache[tasks[t].request.url] = Response(200, "v2")

\* The network attempt of the API call failed: the catch block ran.
ApiFailed(t) == Done(t, "networkFirstWithApiCache") /\ tasks[t].error # None

\* The catch block found a record under the normalized key.
ApiFound(t) == tasks[t].cacheData # NoRecord

NormalizedKey(request) ==
    Url(request.url.path,
        SelectSeq(request.url.search,
                  LAMBDA p : p.name # "timestamp" /\ p.name # "_"
                             /\ p.name # "cacheBuster"))

\* C2: when the network attempt failed and a record was found under the
\* normalized key, a record younger than one hour is answered with its data
\* and is still in the API namespace; a record of one hour or more is gone
\* from the namespace and the answer is the failure envelope, status 408.
C2_TtlBoundary ==
    \A t \in AllSlots :
      ApiFailed(t) /\ ApiFound(t)
      => LET self == tasks[t]
             key == NormalizedKey(self.request)
         IN  IF self.cacheAge < 60 * 60 * 1000
             THEN /\ self.result.kind = "response"
                  /\ self.result.response =
                       Response(200, stringify(self.cacheData.data))
                  /\ has(apiCache, key)
                  /\ apiCache[key] = self.cacheData
             ELSE /\ ~has(apiCache, key)
                  /\ self.result.kind = "response"
                  /\ self.result.response = FailureEnvelope
                  /\ self.result.response.status = 408

\* A failed API call that found a record exactly one hour old: the record
\* is deleted and the envelope returned.
C2_Witness ==
    \E t \in AllSlots :
      /\ ApiFailed(t)
      /\ ApiFound(t)
      /\ tasks[t].cacheAge = MAX_CACHE_AGE
      /\ tasks[t].result.response = FailureEnvelope
      /\ ~has(apiCache, apiKey(tasks[t].request))


\* C9 as claimed: an API call whose fetch resolved 2xx with a body that
\* decodes to a value without success === false returns the network response
\* and leaves {data: decoded body, timestamp, url: request url} under the
\* normalized key; with success === false it returns the network response.
C9_SuccessPathStored ==
    \A t \in AllSlots :
      LET self == tasks[t]
          key == NormalizedKey(self.request)
          body == self.networkResponse.body
      IN  ( /\ Done(t, "networkFirstWithApiCache")
            /\ Resolves(self)
            /\ self.networkResponse.status \in 200..299
            /\ ~jsonThrows(body) )
          => /\ self.result.kind = "response"
             /\ self.result.response = self.networkResponse
             /\ json(body).success # "false"
                  => /\ has(apiCache, key)
                     /\ apiCache[key].data = json(body)
                     /\ apiCache[key].url = self.request.url
                     /\ apiCache[key].timestamp <= now

\* What a failed network attempt of the API call comes to: the data of a
\* record younger than an hour, which stays, or else the failure envelope
\* and no record under the key; never the network response.
ApiFallback(t) ==
    LET self == tasks[t]
        key == NormalizedKey(self.request)
    IN  /\ self.result.kind = "response"
        /\ Resolves(self) => self.result.response # self.networkResponse
        /\ IF ApiFound(t) /\ self.cacheAge < 60 * 60 * 1000
           THEN /\ self.result.response =
                     Response(200, stringify(self.cacheData.data))
                /\ apiCache[key] = self.cacheData
           ELSE /\ self.result.response = FailureEnvelope
                /\ self.result.response.status = 408
                /\ ~has(apiCache, key)

\* C10: an API call whose fetch resolved with a status outside 2xx ends as
\* a call whose fetch threw: with the fresh cached data for the normalized
\* key when there is one, else the 408 envelope; the response is neither
\* returned nor stored.
C10_NonOkIsFailure ==
    \A t \in AllSlots :
      Done(t, "networkFirstWithApiCache")
      => /\ ( Resolves(tasks[t]) /\ tasks[t].networkResponse.status \notin 200..299 )
              => ApiFallback(t) /\ tasks[t].error = "status"
         /\ tasks[t].error = "network" => ApiFallback(t)

\* An API call that got a 500 with a well-formed payload and answered with
\* the fresh record of the cache.
C10_Witness ==
    \E t \in AllSlots :
      /\ Done(t, "networkFirstWithApiCache")
      /\ tasks[t].networkResponse = Response(500, "{\"success\":true,\"data\":[1]}")
      /\ ApiFound(t)
      /\ tasks[t].result.from = "cache"
      /\ tasks[t].result.response = Response(200, "{\"data\":[2]}")

C3_OneAttemptEach ==
    /\ [](\A d \in AllDrains :
            LET self == drains[d] IN
            /\ Len(self.log) <= Len(self.pendingRequests)
            /\ \A j \in DOMAIN self.log : self.log[j].request = self.pendingRequests[j]
            /\ \A j, k \in DOMAIN self.pendingRequests :
                 j # k => self.pendingRequests[j].id # self.pendingRequests[k].id
            /\ self.pc = "done" => Len(self.log) = Len(self.pendingRequests))
    /\ [][\A d \in AllDrains :
            drains[d].pc \in {"idle", "done"} /\ drains'[d] # drains[d]
            => {drains'[d].pendingRequests[j] :
                  j \in DOMAIN drains'[d].pendingRequests} = queue]_vars

\* A finished drain over three records whose replays threw, got a non-2xx
\* response and got a 2xx response, in that order.
C3_Witness ==
    \E d \in AllDrains :
      /\ drains[d].pc = "done"
      /\ Len(drains[d].pendingRequests) = 3
      /\ Len(drains[d].log) = 3
      /\ drains[d].log[1].reply = "throw"
      /\ drains[d].log[2].reply = "non-2xx"
      /\ drains[d].log[3].reply = "2xx"

\* C4: a record whose replay got a 2xx response is out of the store before
\* the next replay starts and from then on; a record whose replay threw or
\* got another response is in the store, every field as it was read.
C4_RemovalExact ==
    \A d \in AllDrains :
      LET self == drains[d] IN
      \A j \in DOMAIN self.log :
        /\ ( self.log[j].reply = "2xx" /\ ~(self.pc = "delete" /\ j = self.i) )
             => \A r \in queue : r.id # self.log[j].request.id
        /\ self.log[j].reply # "2xx" => self.log[j].request \in queue

\* A drain about to replay its third record: the first replay threw and the
\* record is still stored, the second got a 2xx response and its record is
\* already gone.
C4_Witness ==
    \E d \in AllDrains :
      /\ drains[d].pc = "fetch"
      /\ drains[d].i = 3
      /\ drains[d].log[1].reply = "throw"
      /\ drains[d].log[2].reply = "2xx"
      /\ drains[d].log[1].request \in queue
      /\ \A r \in queue : r.id # drains[d].log[2].request.id

\* C5 as claimed: when the install transition has settled, either a fetch
\* of a precache url failed, the promise handed to waitUntil is rejected,
\* the worker is not installed and the static namespace holds none of the
\* precache urls, or every url was fetched and all are in the namespace.
C5_InstallAllOrNothing ==
    ( worker.pc = "done" /\ worker.state # "activated" )
    => IF \E u \in PRECACHE_URLS : worker.fetched[u] = "failed"
       THEN /\ worker.waitUntil = "rejected"
            /\ worker.state # "installed"
            /\ \A u \in PRECACHE_URLS : ~has(staticCache, u)
       ELSE \A u \in PRECACHE_URLS : has(staticCache, u)


(***************************************************************************)
(* Two plain Network-First calls in flight at once, for external           *)
(* resources; the cache store resolves every operation.                    *)
(***************************************************************************)
InitNetworkFirst ==
    /\ event = NoEvent
    /\ cacheNames = {CACHE_NAME}
    /\ \/ worker = Activated(AllFetched) /\ staticCache = Precached
       \/ worker = Activated(OfflineNotFetched) /\ staticCache = EmptyCache
    /\ apiCache = EmptyCache
    /\ now = 0
    /\ tasks = [t \in AllSlots |-> IdleTask]
    /\ slots = AllSlots
    /\ storeFaults = FALSE
    /\ NoQueue

NextNetworkFirst ==
    \/ \E t \in AllSlots :
         \/ respondWithNetworkFirst(t)
         \/ networkFirstFetch(t)
         \/ networkFirstPut(t)
         \/ networkFirstCatch(t)
         \/ networkFirstOffline(t)
    \/ Tick

SpecNetworkFirst == InitNetworkFirst /\ [][NextNetworkFirst]_vars

\* The call returned the response, taken from the named place.
Returned(self, from, response) ==
    /\ self.pc = "done"
    /\ self.result = [kind |-> "response", from |-> from, response |-> response]

\* The call rejected with the failure of its network attempt.
Rethrown(self) ==
    /\ self.pc = "done"
    /\ self.result.kind = "rejected"
    /\ self.result.from = "network"

\* C11: in networkFirstStrategy, when the fetch resolved the next step puts
\* the response in the static namespace under the request's key, whatever
\* was there, leaves every other entry alone and returns that response.
\* When the fetch failed, the call returns the entry of the request if the
\* static namespace has one; else, for a request that accepts text/html,
\* the stored offline page if there is one; else it rejects with the
\* failure of the fetch.  The failure path writes nothing.
C11_FailureChain ==
    [][\A t \in AllSlots :
         LET self == tasks[t]
             after == tasks'[t]
             url == self.request.url
         IN  (self.strategy = "networkFirstStrategy" /\ after # self) =>
             /\ self.pc = "nf_fetch" =>
                  /\ after.fetches = 1
                  /\ after.pc = IF Resolves(after) THEN "nf_put" ELSE "nf_catch"
                  /\ staticCache' = staticCache
             /\ self.pc = "nf_put" =>
                  /\ Returned(after, "network", self.networkResponse)
                  /\ DOMAIN staticCache' = DOMAIN staticCache \cup {url}
                  /\ staticCache'[url] = self.networkResponse
                  /\ \A k \in DOMAIN staticCache \ {url} :
                       staticCache'[k] = staticCache[k]
             /\ self.pc = "nf_catch" =>
                  /\ ~Resolves(self)
                  /\ staticCache' = staticCache
                  /\ IF has(staticCache, url)
                     THEN Returned(after, "cache", staticCache[url])
                     ELSE IF acceptsHtml(self.request.accept)
                          THEN after.pc = "nf_offline"
                          ELSE Rethrown(after)
             /\ self.pc = "nf_offline" =>
                  /\ ~Resolves(self)
                  /\ acceptsHtml(self.request.accept)
                  /\ staticCache' = staticCache
                  /\ IF has(staticCache, OfflineKey)
                     THEN Returned(after, "offline", staticCache[OfflineKey])
                     ELSE Rethrown(after)]_vars

\* A call whose fetch failed was served the entry of its request, and a
\* call for the same request that fetched another response has since
\* overwritten that entry and returned the fresh response.
C11_Witness ==
    \E t, u \in AllSlots :
      /\ Done(t, "networkFirstStrategy")
      /\ Done(u, "networkFirstStrategy")
      /\ tasks[t].request.url = tasks[u].request.url
      /\ tasks[t].result.kind = "response"
      /\ tasks[t].result.from = "cache"
      /\ Returned(tasks[u], "network", tasks[u].networkResponse)
      /\ tasks[u].networkResponse # tasks[t].result.response
      /\ staticCache[tasks[u].request.url] = tasks[u].networkResponse


\* C12: the records a drain read are in ascending order of timestamp, and
\* the drain replays them in that order one at a time: when the replay of
\* the i-th record is awaited exactly the i - 1 records before it have been
\* replayed, those answered 2xx are already deleted, and the order depends
\* on no id and no reply.
C12_TimestampOrder ==
    \A d \in AllDrains :
      LET self == drains[d] IN
      /\ \A j, k \in DOMAIN self.pendingRequests :
           j < k => self.pendingRequests[j].timestamp
                      <= self.pendingRequests[k].timestamp
      /\ \A j \in DOMAIN self.log : self.log[j].request = self.pendingRequests[j]
      /\ self.pc = "fetch" =>
           /\ Len(self.log) = self.i - 1
           /\ \A j \in DOMAIN self.log :
                self.log[j].reply = "2xx"
                => \A r \in queue : r.id # self.log[j].request.id
      /\ self.pc = "delete" =>
           /\ Len(self.log) = self.i
           /\ self.log[self.i].reply = "2xx"

\* A finished drain replayed the record with the greater id and the lesser
\* timestamp first, though that replay failed and the next one succeeded.
C12_Witness ==
    \E d \in AllDrains :
      /\ drains[d].pc = "done"
      /\ Len(drains[d].log) >= 2
      /\ drains[d].log[1].request.id > drains[d].log[2].request.id
      /\ drains[d].log[1].request.timestamp < drains[d].log[2].request.timestamp
      /\ drains[d].log[1].reply = "non-2xx"
      /\ drains[d].log[2].reply = "2xx"


(***************************************************************************)
(* The activate transition.  caches.keys() lists the namespaces; the map   *)
(* callback starts caches.delete for every listed name that is not on the  *)
(* whitelist, all at once; Promise.all waits for them and the next .then   *)
(* calls clients.claim().                                                  *)
(***************************************************************************)
\* const cacheWhitelist = [CACHE_NAME, API_CACHE_NAME]
cacheWhitelist == {CACHE_NAME, API_CACHE_NAME}

\* Namespaces of earlier generations of the worker and of another script.
OldCacheNames == {"dsog-delivery-v2.0.0", "dsog-api-cache-v0.9", "other-cache"}

\* A record of the API namespace stored before the activation.
StoredRecord == cacheData(JsonObject("true", "{\"rows\":[1]}"), 0, Url(EXEC, << >>))

Activating ==
    [state |-> "activating", pc |-> "keys", waitUntil |-> "pending",
     cacheNames |-> {}, deleting |-> {}, failed |-> FALSE, claimed |-> FALSE]

Activates(pc) == worker.state = "activating" /\ worker.pc = pc

\* The test that takes every listed namespace for an old one.
evictsAll(cacheName) == TRUE

\* if (!cacheWhitelist.includes(cacheName))
evicts(cacheName) == cacheName \notin cacheWhitelist

\* caches.keys().then((cacheNames) => Promise.all(cacheNames.map(...)))
activateKeys ==
    /\ Activates("keys")
    /\ worker' = [worker EXCEPT !.pc = "deleting",
                                !.cacheNames = cacheNames,
                                !.deleting = {n \in cacheNames : evicts(n)}]
    /\ UNCHANGED <<event, cacheVars, now, tasks, fetchConfig, queueVars>>

\* caches.delete(cacheName) settles: the namespace and its entries are gone.
cachesDelete(cacheName) ==
    /\ Activates("deleting")
    /\ cacheName \in worker.deleting
    /\ \E fault \in Faults :
         IF fault
         THEN /\ worker' = [worker EXCEPT !.deleting = @ \ {cacheName},
                                          !.failed = TRUE]
              /\ UNCHANGED cacheVars
         ELSE /\ worker' = [worker EXCEPT !.deleting = @ \ {cacheName}]
              /\ cacheNames' = cacheNames \ {cacheName}
              /\ staticCache' = IF cacheName = CACHE_NAME THEN EmptyCache
                                ELSE staticCache
              /\ apiCache' = IF cacheName = API_CACHE_NAME THEN EmptyCache
                             ELSE apiCache
    /\ UNCHANGED <<event, now, tasks, fetchConfig, queueVars>>

\* .then(() => self.clients.claim()): Promise.all has resolved
clientsClaim ==
    /\ Activates("deleting")
    /\ worker.deleting = {}
    /\ ~worker.failed
    /\ worker' = [worker EXCEPT !.pc = "claimed", !.claimed = TRUE]
    /\ UNCHANGED <<event, cacheVars, now, tasks, fetchConfig, queueVars>>

\* The promise handed to event.waitUntil settles and the worker is active:
\* fulfilled after clients.claim(), rejected as soon as a delete rejected.
activateSettles ==
    /\ worker.state = "activating"
    /\ worker.claimed \/ worker.failed
    /\ worker' = [worker EXCEPT
                    !.state = "activated", !.pc = "done",
                    !.waitUntil = IF worker.failed THEN "rejected" ELSE "fulfilled"]
    /\ UNCHANGED <<event, cacheVars, now, tasks, fetchConfig, queueVars>>

InitActivate ==
    /\ event = NoEvent
    /\ \E old \in SUBSET OldCacheNames, current \in SUBSET {API_CACHE_NAME} :
         cacheNames = {CACHE_NAME} \cup current \cup old
    /\ staticCache \in {EmptyCache, Precached}
    /\ apiCache \in IF API_CACHE_NAME \in cacheNames
                    THEN {EmptyCache, [k \in {StoredRecord.url} |-> StoredRecord]}
                    ELSE {EmptyCache}
    /\ now = 0
    /\ tasks = [t \in AllSlots |-> IdleTask]
    /\ slots = {}
    /\ storeFaults = FALSE
    /\ NoQueue
    /\ worker = Activating

NextActivate ==
    \/ activateKeys
    \/ \E cacheName \in cacheWhitelist \cup OldCacheNames : cachesDelete(cacheName)
    \/ clientsClaim
    \/ activateSettles

SpecActivate == InitActivate /\ [][NextActivate]_vars

\* C13: once clients.claim() is called, and so when the activate transition
\* has completed, no namespace that caches.keys() listed is left except
\* CACHE_NAME and API_CACHE_NAME; no step of the transition removes one of
\* these two or changes an entry of them.
C13_ActivationEvicts ==
    /\ [](( worker.state \in {"activating", "activated"} /\ worker.pc \in {"claimed", "done"} )
          => /\ worker.claimed
             /\ worker.deleting = {}
             /\ \A n \in worker.cacheNames :
                  IF n \in {CACHE_NAME, API_CACHE_NAME}
                  THEN n \in cacheNames
                  ELSE n \notin cacheNames)
    /\ [][ /\ cacheNames' \cap {CACHE_NAME, API_CACHE_NAME}
              = cacheNames \cap {CACHE_NAME, API_CACHE_NAME}
           /\ staticCache' = staticCache
           /\ apiCache' = apiCache ]_vars

\* The worker is active after an activation that found three old
\* namespaces beside the two current ones: the old ones are gone, the
\* current ones and their entries are there.
C13_Witness ==
    /\ worker.state = "activated"
    /\ worker.claimed
    /\ worker.cacheNames = {CACHE_NAME, API_CACHE_NAME} \cup OldCacheNames
    /\ cacheNames = {CACHE_NAME, API_CACHE_NAME}
    /\ staticCache = Precached
    /\ apiCache # EmptyCache


\* C14: a call of networkFirstWithOfflineFallback made one fetch and
\* returned a response.  When the fetch resolved, the response is in the
\* static namespace under the request's key and is what the call returned;
\* when the fetch failed, the call returned the stored offline page if the
\* namespace holds one and the inline offline document, which it does not
\* store, if not.
C14_OfflineFallback ==
    \A t \in AllSlots :
      LET self == tasks[t] IN
      Done(t, "networkFirstWithOfflineFallback")
      => /\ self.fetches = 1
         /\ IF Resolves(self)
            THEN /\ Returned(self, "network", self.networkResponse)
                 /\ has(staticCache, self.request.url)
                 /\ staticCache[self.request.url] = self.networkResponse
            ELSE IF has(staticCache, OfflineKey)
                 THEN Returned(self, "offline", staticCache[OfflineKey])
                 ELSE /\ Returned(self, "synthetic", InlineOfflinePage)
                      /\ ~has(staticCache, self.request.url)
                           \/ staticCache[self.request.url] # InlineOfflinePage

\* A call whose fetch failed while no offline page was stored, answered
\* with the inline document.
C14_Witness ==
    \E t \in AllSlots :
      /\ Done(t, "networkFirstWithOfflineFallback")
      /\ ~Resolves(tasks[t])
      /\ tasks[t].error = "network"
      /\ ~has(staticCache, OfflineKey)
      /\ tasks[t].result.response = InlineOfflinePage


\* C15: a call of networkOnlyStrategy made one fetch; it returned the
\* network response when the fetch resolved and the synthesized 408
\* response when it failed; and no step of the call, nor its start, adds,
\* removes or changes a namespace or an entry of the static or the API
\* namespace, also when cache-store operations may reject.
C15_NetworkOnlyNoCache ==
    /\ [](\A t \in AllSlots :
            LET self == tasks[t] IN
            Done(t, "networkOnlyStrategy")
            => /\ self.fetches = 1
               /\ IF Resolves(self)
                  THEN Returned(self, "network", self.networkResponse)
                  ELSE /\ Returned(self, "synthetic", NetworkError408)
                       /\ NetworkError408.status = 408)
    /\ [][\A t \in AllSlots :
            ( tasks'[t] # tasks[t]
              /\ "networkOnlyStrategy" \in {tasks[t].strategy, tasks'[t].strategy}
              /\ "no_fetch" \in {tasks[t].pc, tasks'[t].pc} )
            => /\ cacheNames' = cacheNames
               /\ staticCache' = staticCache
               /\ apiCache' = apiCache]_vars

\* A Network-Only call whose fetch failed answered 408 while the cache
\* store may reject operations, and the static namespace has no entry for
\* its request.
C15_Witness ==
    \E t \in AllSlots :
      /\ Done(t, "networkOnlyStrategy")
      /\ storeFaults
      /\ ~Resolves(tasks[t])
      /\ tasks[t].fetches = 1
      /\ tasks[t].result.response = NetworkError408
      /\ ~has(staticCache, tasks[t].request.url)


\* The two urls differ in the parameters timestamp, _ and cacheBuster only.
Collapse(url, other) ==
    NormalizedKey([url |-> url]) = NormalizedKey([url |-> other])

\* C16: the API namespace never holds two entries whose keys differ only in
\* timestamp, _ and cacheBuster, and every record is under the key its own
\* url collapses to.  A call whose network attempt failed found a record
\* exactly when the namespace held one stored for a url that collapses with
\* the url of its request, and a record found younger than one hour is the
\* one it served, whichever of these urls the record was stored for.
C16_KeyCollapse ==
    /\ \A k1, k2 \in DOMAIN apiCache : Collapse(k1, k2) => k1 = k2
    /\ \A k \in DOMAIN apiCache : Collapse(k, apiCache[k].url)
    /\ \A t \in AllSlots :
         ApiFailed(t) /\ tasks[t].error # "store"
         => LET self == tasks[t] IN
            IF ApiFound(t)
            THEN /\ Collapse(self.cacheData.url, self.request.url)
                 /\ self.cacheAge < MAX_CACHE_AGE
                      => /\ Returned(self, "cache",
                                     Response(200, stringify(self.cacheData.data)))
                         /\ \E k \in DOMAIN apiCache :
                              /\ Collapse(k, self.request.url)
                              /\ apiCache[k] = self.cacheData
            ELSE \A k \in DOMAIN apiCache : ~Collapse(k, self.request.url)

\* The call for the url with cacheBuster=123 failed on the network and was
\* served the record that a call for the url without parameters stored;
\* the namespace has that one entry.
C16_Witness ==
    \E t \in AllSlots :
      /\ ApiFailed(t)
      /\ tasks[t].request.url = Url(EXEC, <<Param("cacheBuster", "123")>>)
      /\ tasks[t].result.from = "cache"
      /\ tasks[t].cacheData.url = Url(EXEC, << >>)
      /\ DOMAIN apiCache = {Url(EXEC, << >>)}


(***************************************************************************)
(* generateCacheKey applied to every request with up to MaxParams query    *)
(* parameters, and applied again to the key it made.                       *)
(***************************************************************************)
MaxParams == 2

ParamNames == Volatile \cup {"action"}

ParamValues == {"1", "a%20b"}

KeyUrls ==
    {Url(EXEC, search) :
       search \in UNION {[1..n -> [name : ParamNames, value : ParamValues]] :
                           n \in 0..MaxParams}}

KeyRequests == [url : KeyUrls, accept : {"application/json"}]

InitKey ==
    /\ event \in {<<[request |-> r, cacheKey |-> << >>]>> : r \in KeyRequests}
    /\ cacheNames = {CACHE_NAME}
    /\ staticCache = Precached
    /\ apiCache = EmptyCache
    /\ now = 0
    /\ tasks = [t \in AllSlots |-> IdleTask]
    /\ slots = {}
    /\ storeFaults = FALSE
    /\ NoQueue
    /\ worker = Activated(AllFetched)

\* const cacheKey = generateCacheKey(request), of the request and then of
\* the key
normalize ==
    /\ event # NoEvent
    /\ Len(event[1].cacheKey) < 2
    /\ LET of == IF event[1].cacheKey = << >> THEN event[1].request
                 ELSE event[1].cacheKey[Len(event[1].cacheKey)]
       IN  event' = <<[event[1] EXCEPT !.cacheKey = Append(@, generateCacheKey(of))]>>
    /\ UNCHANGED <<cacheVars, now, tasks, fetchConfig, queueVars, worker>>

NextKey == normalize

SpecKey == InitKey /\ [][NextKey]_vars

\* C17: the key of a request has the path of the request and none of the
\* parameters timestamp, _ and cacheBuster; the key of the key is the key;
\* and a request with none of the three parameters keeps every parameter,
\* in order, with its name and the value it stands for.
C17_Idempotent ==
    \A e \in {event[i] : i \in DOMAIN event} :
      LET request == e.request IN
      /\ \A i \in DOMAIN e.cacheKey :
           /\ e.cacheKey[i].url.path = request.url.path
           /\ \A j \in DOMAIN e.cacheKey[i].url.search :
                e.cacheKey[i].url.search[j].name \notin {"timestamp", "_", "cacheBuster"}
      /\ Len(e.cacheKey) = 2 => e.cacheKey[2] = e.cacheKey[1]
      /\ ( /\ e.cacheKey # << >>
           /\ \A j \in DOMAIN request.url.search :
                request.url.search[j].name \notin {"timestamp", "_", "cacheBuster"} )
         => /\ Len(e.cacheKey[1].url.search) = Len(request.url.search)
            /\ \A j \in DOMAIN request.url.search :
                 /\ e.cacheKey[1].url.search[j].name = request.url.search[j].name
                 /\ decode(e.cacheKey[1].url.search[j].value)
                      = decode(request.url.search[j].value)

\* The request ?timestamp=1&timestamp=a%20b was normalized twice and both
\* keys have no parameter.
C17_Witness ==
    /\ event # NoEvent
    /\ Len(event[1].cacheKey) = 2
    /\ event[1].request.url.search =
         <<Param("timestamp", "1"), Param("timestamp", "a%20b")>>
    /\ event[1].cacheKey[1].url.search = << >>
    /\ event[1].cacheKey[2].url.search = << >>


(***************************************************************************)
(* Notifications.  The push listener shows a notification that carries the *)
(* url of the payload, or '/delivery/'; the notificationclick listener     *)
(* closes it and, unless the action is 'close', focuses a window client    *)
(* at that url or opens a window.  A client's url is absolute.             *)
(***************************************************************************)
MaxClients == 2

\* data.url of a push payload; "" stands for a payload without url.
PayloadUrls == {"", "/delivery/track", "https://dsog.example/delivery/track"}

\* client.url of the window clients
ClientUrls == {"https://dsog.example/delivery/", "https://dsog.example/delivery/track"}

\* event.action: "" is a click outside the buttons
NotificationActions == {"", "view", "close"}

WindowClients == UNION {[1..n -> [url : ClientUrls]] : n \in 0..MaxClients}

NoNotification == [url |-> "", shown |-> FALSE, closed |-> FALSE]

\* data.url || '/delivery/'
orDefault(url) == IF url = "" THEN "/delivery/" ELSE url

\* self.addEventListener('push', ...): showNotification with data.url
push ==
    /\ event # NoEvent
    /\ event[1].pc = "push"
    /\ event' = <<[event[1] EXCEPT
                     !.pc = "shown",
                     !.notification = [url |-> orDefault(event[1].payload),
                                       shown |-> TRUE, closed |-> FALSE]]>>
    /\ UNCHANGED <<cacheVars, now, tasks, fetchConfig, queueVars, worker>>

\* self.addEventListener('notificationclick', ...) up to clients.matchAll
notificationclick ==
    /\ event # NoEvent
    /\ event[1].pc = "shown"
    /\ \E action \in NotificationActions :
         event' = <<[event[1] EXCEPT
                       !.action = action,
                       !.notification.closed = TRUE,
                       !.urlToOpen = IF action = "close" THEN @
                                     ELSE orDefault(event[1].notification.url),
                       !.pc = IF action = "close" THEN "done" ELSE "matchAll"]>>
    /\ UNCHANGED <<cacheVars, now, tasks, fetchConfig, queueVars, worker>>

\* The handler that focuses the client and opens a window as well.
focusAndOpen(windowClients, urlToOpen) ==
    [focused |-> IF \E i \in DOMAIN windowClients : windowClients[i].url = urlToOpen
                 THEN <<CHOOSE i \in DOMAIN windowClients :
                          /\ windowClients[i].url = urlToOpen
                          /\ \A j \in 1..(i - 1) : windowClients[j].url # urlToOpen>>
                 ELSE << >>,
     opened |-> <<urlToOpen>>]

\* for (const client of windowClients)
\*   if (client.url === urlToOpen && 'focus' in client) return client.focus();
\* if (clients.openWindow) return clients.openWindow(urlToOpen)
focusOrOpen(windowClients, urlToOpen) ==
    IF \E i \in DOMAIN windowClients : windowClients[i].url = urlToOpen
    THEN [focused |-> <<CHOOSE i \in DOMAIN windowClients :
                          /\ windowClients[i].url = urlToOpen
                          /\ \A j \in 1..(i - 1) : windowClients[j].url # urlToOpen>>,
          opened |-> << >>]
    ELSE [focused |-> << >>, opened |-> <<urlToOpen>>]

\* clients.matchAll({type: 'window', includeUncontrolled: true}).then(...)
matchAllThen ==
    /\ event # NoEvent
    /\ event[1].pc = "matchAll"
    /\ LET effect == focusOrOpen(event[1].windowClients, event[1].urlToOpen)
       IN  event' = <<[event[1] EXCEPT !.pc = "done",
                                       !.focused = effect.focused,
                                       !.opened = effect.opened]>>
    /\ UNCHANGED <<cacheVars, now, tasks, fetchConfig, queueVars, worker>>

InitNotification ==
    /\ event \in {<<[pc |-> "push", payload |-> url, notification |-> NoNotification,
                     action |-> None, urlToOpen |-> None, windowClients |-> clients,
                     focused |-> << >>, opened |-> << >>]>> :
                   url \in PayloadUrls, clients \in WindowClients}
    /\ cacheNames = {CACHE_NAME}
    /\ staticCache = Precached
    /\ apiCache = EmptyCache
    /\ now = 0
    /\ tasks = [t \in AllSlots |-> IdleTask]
    /\ slots = {}
    /\ storeFaults = FALSE
    /\ NoQueue
    /\ worker = Activated(AllFetched)

NextNotification ==
    \/ push
    \/ notificationclick
    \/ matchAllThen

SpecNotification == InitNotification /\ [][NextNotification]_vars

\* C18: once the interaction is handled the notification is closed; for the
\* action 'close' no client was focused and no window opened; for any other
\* action exactly one thing happened: one client whose url is equal to the
\* url stored in the notification was focused, or, no client having that
\* url, one window was opened at that url.  Before the handling is over
\* nothing of the two has happened.
C18_FocusXorOpen ==
    \A e \in {event[i] : i \in DOMAIN event} :
      /\ e.pc # "done" => e.focused = << >> /\ e.opened = << >>
      /\ e.pc = "done" =>
           /\ e.notification.closed
           /\ IF e.action = "close"
              THEN e.focused = << >> /\ e.opened = << >>
              ELSE /\ Len(e.focused) + Len(e.opened) = 1
                   /\ \A i \in DOMAIN e.focused :
                        e.windowClients[e.focused[i]].url = e.notification.url
                   /\ \A i \in DOMAIN e.opened :
                        /\ e.opened[i] = e.notification.url
                        /\ \A j \in DOMAIN e.windowClients :
                             e.windowClients[j].url # e.notification.url

\* A click outside the buttons focused the second of two clients, the one
\* at the url of the notification, and opened no window.
C18_Witness ==
    /\ event # NoEvent
    /\ event[1].pc = "done"
    /\ event[1].action = ""
    /\ Len(event[1].windowClients) = 2
    /\ event[1].windowClients[1].url # event[1].notification.url
    /\ event[1].focused = <<2>>
    /\ event[1].opened = << >>


\* The call fetched a response, stored it and returned it.
Stored(t) ==
    /\ Done(t, "networkFirstStrategy")
    /\ Returned(tasks[t], "network", tasks[t].networkResponse)

\* C19: with two Network-First calls in flight, a step of one call leaves
\* the other call as it is, a call whose fetch resolved can always go on to
\* its put, and the put makes its response the entry of the key, whatever
\* the other call has stored; so when both calls for one key have stored
\* and returned, the key has one entry and it is the response of one of
\* the two, that of the put made last.
C19_LastWriteWins ==
    /\ [](\A t, u \in AllSlots :
            /\ tasks[t].pc = "nf_put" => ENABLED networkFirstPut(t)
            /\ ( /\ t # u
                 /\ Stored(t)
                 /\ Stored(u)
                 /\ tasks[t].request.url = tasks[u].request.url )
               => /\ has(staticCache, tasks[t].request.url)
                  /\ staticCache[tasks[t].request.url]
                       \in {tasks[t].networkResponse, tasks[u].networkResponse})
    /\ [][\A t, u \in AllSlots :
            /\ ( t # u /\ tasks'[t] # tasks[t] ) => tasks'[u] = tasks[u]
            /\ ( tasks[t].pc = "nf_put" /\ tasks'[t] # tasks[t] )
               => /\ Stored(t)'
                  /\ staticCache'[tasks[t].request.url] = tasks[t].networkResponse
            /\ ( tasks[t].pc # "nf_put" /\ tasks'[t] # tasks[t] )
               => staticCache' = staticCache]_vars

\* Two calls for one key fetched different responses and both stored and
\* returned them; the entry of the key is the response of the call that
\* was made at the earlier instant.
C19_Witness ==
    \E t, u \in AllSlots :
      /\ Stored(t)
      /\ Stored(u)
      /\ tasks[t].request.url = tasks[u].request.url
      /\ tasks[t].issued < tasks[u].issued
      /\ tasks[t].networkResponse # tasks[u].networkResponse
      /\ staticCache[tasks[t].request.url] = tasks[t].networkResponse


(***************************************************************************)
(* Two sync events whose drains overlap, with the application enqueuing.   *)
(***************************************************************************)
InitDrains ==
    /\ event = NoEvent
    /\ cacheNames = {CACHE_NAME}
    /\ staticCache = Precached
    /\ apiCache = EmptyCache
    /\ now = 0
    /\ tasks = [t \in AllSlots |-> IdleTask]
    /\ slots = {}
    /\ storeFaults = FALSE
    /\ queue = {}
    /\ nextId = 1
    /\ drains = [d \in AllDrains |-> IdleDrain]
    /\ drainers = AllDrains
    /\ worker = Activated(AllFetched)

SpecDrains == InitDrains /\ [][NextQueue]_vars


\* The ids of the records.
Ids(records) == {r.id : r \in records}

\* The ids of the records the drain read.
Snapshot(self) == {self.pendingRequests[j].id : j \in DOMAIN self.pendingRequests}

\* C20: with two drains overlapping and the application enqueuing, a
\* record leaves the store only in the delete step of a drain whose replay
\* of the record with that id has just got a 2xx response; the records a
\* drain replays are those it read, and what it read does not change while
\* it runs, so a record enqueued later is not in it; and a delete of an id
\* that is no longer in the store changes nothing and the drain goes on
\* with its next record.
C20_NoEntryLost ==
    /\ [](\A d \in AllDrains :
            /\ \A j \in DOMAIN drains[d].log :
                 drains[d].log[j].request = drains[d].pendingRequests[j]
            /\ drains[d].pc = "delete" =>
                 /\ drains[d].i \in DOMAIN drains[d].log
                 /\ drains[d].log[drains[d].i].reply = "2xx")
    /\ [][ /\ \A r \in queue \ queue' :
                \E d \in AllDrains :
                  /\ drains[d].pc = "delete"
                  /\ drains'[d] # drains[d]
                  /\ drains[d].log[drains[d].i].request.id = r.id
                  /\ drains[d].log[drains[d].i].reply = "2xx"
           /\ \A r \in queue' \ queue :
                /\ drains' = drains
                /\ \A d \in AllDrains : r.id \notin Snapshot(drains[d])
           /\ \A d \in AllDrains :
                /\ ( drains[d].pc \in {"fetch", "delete"} /\ drains'[d] # drains[d] )
                   => drains'[d].pendingRequests = drains[d].pendingRequests
                /\ ( /\ drains[d].pc = "delete"
                     /\ drains'[d] # drains[d]
                     /\ drains[d].pendingRequests[drains[d].i].id \notin Ids(queue) )
                   => /\ queue' = queue
                      /\ drains'[d].log = drains[d].log
                      /\ drains'[d].i = drains[d].i + 1
                      /\ drains'[d].pc =
                           IF drains[d].i < Len(drains[d].pendingRequests)
                           THEN "fetch" ELSE "done" ]_vars

\* Two drains read the same two records and both got a 2xx response for
\* the first: it was deleted twice, the second time to no effect, and both
\* drains went on to the second record, which got no 2xx response and is
\* still in the store.
C20_Witness ==
    /\ \A d \in AllDrains :
         /\ drains[d].pc = "done"
         /\ Len(drains[d].log) = 2
         /\ drains[d].log[1].reply = "2xx"
         /\ drains[d].log[2].reply # "2xx"
    /\ drains["d1"].pendingRequests = drains["d2"].pendingRequests
    /\ queue = {drains["d1"].pendingRequests[2]}


(***************************************************************************)
(* The message listener.  A client posts one command at a time; the        *)
(* listener starts cacheDeliveryData, clearOldCaches or sendCacheInfo,     *)
(* each an async function that catches every failure of its awaits.        *)
(***************************************************************************)
MessageTypes == {"CACHE_DELIVERY_DATA", "CLEAR_CACHE", "GET_CACHE_INFO"}

\* The first await of the function the listener calls for the type.
FirstAwaitOf(type) ==
    CASE type = "CACHE_DELIVERY_DATA" -> "cdd_open"
      [] type = "CLEAR_CACHE" -> "clear_keys"
      [] type = "GET_CACHE_INFO" -> "info"

\* const cacheKey = `delivery-data-${Date.now()}`
DeliveryKey(instant) == Url("delivery-data-" \o ToString(instant), << >>)

\* new Response(JSON.stringify(data), {headers: {...}}), for the payload
DeliveryData == Response(200, "{\"deliveries\":[]}")

Handles(pc) == event # NoEvent /\ event[1].pc = pc

\* self.addEventListener('message', ...)
message ==
    /\ IF event = NoEvent THEN TRUE ELSE event[1].pc = "done"
    /\ \E type \in MessageTypes :
         event' = <<[type |-> type, pc |-> FirstAwaitOf(type), cacheKey |-> None,
                     cacheNames |-> {}, error |-> None, posted |-> None]>>
    /\ UNCHANGED <<cacheVars, now, tasks, fetchConfig, queueVars, worker>>

\* cacheDeliveryData: const cache = await caches.open(API_CACHE_NAME)
cacheDeliveryOpen ==
    /\ Handles("cdd_open")
    /\ \E fault \in Faults :
         IF fault
         THEN /\ event' = <<[event[1] EXCEPT !.pc = "done", !.error = "store"]>>
              /\ UNCHANGED cacheNames
         ELSE /\ cacheNames' = open(cacheNames, API_CACHE_NAME)
              /\ event' = <<[event[1] EXCEPT !.pc = "cdd_put",
                                            !.cacheKey = DeliveryKey(now)]>>
    /\ UNCHANGED <<staticCache, apiCache, now, tasks, fetchConfig, queueVars, worker>>

\* cacheDeliveryData: await cache.put(cacheKey, new Response(...))
cacheDeliveryPut ==
    /\ Handles("cdd_put")
    /\ \E fault \in Faults :
         IF fault
         THEN /\ event' = <<[event[1] EXCEPT !.pc = "done", !.error = "store"]>>
              /\ UNCHANGED apiCache
         ELSE /\ apiCache' = put(apiCache, event[1].cacheKey, DeliveryData)
              /\ event' = <<[event[1] EXCEPT !.pc = "done"]>>
    /\ UNCHANGED <<cacheNames, staticCache, now, tasks, fetchConfig, queueVars, worker>>

\* The test that takes every namespace for an old one.
clearsAll(cacheName) == TRUE

\* if (cacheName !== CACHE_NAME && cacheName !== API_CACHE_NAME)
clears(cacheName) == cacheName # CACHE_NAME /\ cacheName # API_CACHE_NAME

\* clearOldCaches: const cacheNames = await caches.keys(); the loop passes
\* the names it does not delete without an await.
clearKeys ==
    /\ Handles("clear_keys")
    /\ \E fault \in Faults :
         event' = <<IF fault
                    THEN [event[1] EXCEPT !.pc = "done", !.error = "store"]
                    ELSE [event[1] EXCEPT
                            !.cacheNames = {n \in cacheNames : clears(n)},
                            !.pc = IF \E n \in cacheNames : clears(n)
                                   THEN "clear_delete" ELSE "done"]>>
    /\ UNCHANGED <<cacheVars, now, tasks, fetchConfig, queueVars, worker>>

\* clearOldCaches: await caches.delete(cacheName), for the next name
clearDelete(cacheName) ==
    /\ Handles("clear_delete")
    /\ cacheName \in event[1].cacheNames
    /\ \E fault \in Faults :
         IF fault
         THEN /\ event' = <<[event[1] EXCEPT !.pc = "done", !.error = "store"]>>
              /\ UNCHANGED cacheVars
         ELSE /\ event' = <<[event[1] EXCEPT
                               !.cacheNames = @ \ {cacheName},
                               !.pc = IF event[1].cacheNames = {cacheName}
                                      THEN "done" ELSE "clear_delete"]>>
              /\ cacheNames' = cacheNames \ {cacheName}
              /\ staticCache' = IF cacheName = CACHE_NAME THEN EmptyCache
                                ELSE staticCache
              /\ apiCache' = IF cacheName = API_CACHE_NAME THEN EmptyCache
                             ELSE apiCache
    /\ UNCHANGED <<now, tasks, fetchConfig, queueVars, worker>>

\* sendCacheInfo: both namespaces are opened and their keys counted, then
\* port.postMessage({type: 'CACHE_INFO', data: info})
sendCacheInfo ==
    /\ Handles("info")
    /\ \E fault \in Faults :
         IF fault
         THEN /\ event' = <<[event[1] EXCEPT !.pc = "done", !.error = "store",
                                            !.posted = "CACHE_INFO_ERROR"]>>
              /\ UNCHANGED cacheNames
         ELSE /\ cacheNames' = open(open(cacheNames, CACHE_NAME), API_CACHE_NAME)
              /\ event' = <<[event[1] EXCEPT !.pc = "done", !.posted = "CACHE_INFO"]>>
    /\ UNCHANGED <<staticCache, apiCache, now, tasks, fetchConfig, queueVars, worker>>

(***************************************************************************)
(* The worker from its activation on: the activate transition, then one    *)
(* strategy call at a time, with the commands of the client in between.    *)
(* The API namespace holds a record of the worker's earlier run, older     *)
(* than the maximum age.                                                   *)
(***************************************************************************)
InitWorker ==
    /\ event = NoEvent
    /\ cacheNames = {CACHE_NAME, API_CACHE_NAME} \cup OldCacheNames
    /\ staticCache = Precached
    /\ apiCache = [k \in {StoredRecord.url} |-> StoredRecord]
    /\ now = MAX_CACHE_AGE
    /\ tasks = [t \in AllSlots |-> IdleTask]
    /\ slots = {"t1"}
    /\ storeFaults = FALSE
    /\ NoQueue
    /\ worker = Activating

NextWorker ==
    \/ NextActivate
    \/ \E t \in AllSlots :
         \/ respondWith(t)
         \/ cacheFirstOpen(t)
         \/ cacheFirstMatch(t)
         \/ cacheFirstFetch(t)
         \/ cacheFirstPut(t)
         \/ cacheFirstCatch(t)
         \/ networkFirstFetch(t)
         \/ networkFirstPut(t)
         \/ networkFirstCatch(t)
         \/ networkFirstOffline(t)
         \/ offlineFallbackFetch(t)
         \/ offlineFallbackPut(t)
         \/ offlineFallbackCatch(t)
         \/ networkOnlyFetch(t)
         \/ apiCacheOpen(t)
         \/ apiCacheFetch(t)
         \/ apiCachePut(t)
         \/ apiCacheCatch(t)
         \/ apiCacheDelete(t)
    \/ message
    \/ cacheDeliveryOpen
    \/ cacheDeliveryPut
    \/ clearKeys
    \/ \E cacheName \in cacheWhitelist \cup OldCacheNames : clearDelete(cacheName)
    \/ sendCacheInfo

SpecWorker == InitWorker /\ [][NextWorker]_vars


\* The namespace is there after the step if it was before.
Kept(cacheName) == cacheName \in cacheNames => cacheName \in cacheNames'

\* A strategy call of one of the named strategies takes the step.
Steps(strategies) ==
    \E t \in AllSlots :
      /\ tasks'[t] # tasks[t]
      /\ {tasks[t].strategy, tasks'[t].strategy} \cap strategies # {}

\* The handling of a command of the type takes the step.
Commands(type) ==
    /\ event' # event
    /\ event' # NoEvent
    /\ event'[1].type = type

\* C21: a step of cacheFirstStrategy, networkFirstStrategy or
\* networkFirstWithOfflineFallback leaves the API namespace as it is; a
\* step of networkFirstWithApiCache or of the command CACHE_DELIVERY_DATA
\* leaves the static namespace as it is; no step of a strategy call removes
\* a namespace or changes the retry queue; and a step of the activate
\* transition or of the command CLEAR_CACHE removes neither CACHE_NAME nor
\* API_CACHE_NAME and changes no entry of them.
C21_WriteIsolation ==
    [][ /\ Steps({"cacheFirstStrategy", "networkFirstStrategy",
                  "networkFirstWithOfflineFallback"})
           => apiCache' = apiCache
        /\ ( Steps({"networkFirstWithApiCache"}) \/ Commands("CACHE_DELIVERY_DATA") )
           => staticCache' = staticCache
        /\ ( Steps(StaticStrategies \cup {"networkFirstWithApiCache"})
             \/ Commands("CACHE_DELIVERY_DATA") )
           => /\ cacheNames \subseteq cacheNames'
              /\ queue' = queue
              /\ nextId' = nextId
              /\ drains' = drains
        /\ ( worker' # worker \/ Commands("CLEAR_CACHE") )
           => /\ Kept(CACHE_NAME)
              /\ Kept(API_CACHE_NAME)
              /\ staticCache' = staticCache
              /\ apiCache' = apiCache ]_vars

\* The worker is active, CLEAR_CACHE has run to its end, the old
\* namespaces are gone and the two current ones are there; the static
\* namespace has the precache and an entry a strategy stored, the API
\* namespace a record a strategy stored and the entry CACHE_DELIVERY_DATA
\* put.
C21_Witness ==
    /\ worker.state = "activated"
    /\ event # NoEvent
    /\ event[1].type = "CLEAR_CACHE"
    /\ event[1].pc = "done"
    /\ event[1].error = None
    /\ cacheNames = {CACHE_NAME, API_CACHE_NAME}
    /\ has(staticCache, OfflineKey)
    /\ has(staticCache, APP_JS)
    /\ has(apiCache, DeliveryKey(MAX_CACHE_AGE))
    /\ \E k \in DOMAIN apiCache :
         k.path = EXEC /\ apiCache[k].timestamp = MAX_CACHE_AGE

=============================================================================
